---- MODULE Spec2Model ----
(***************************************************************************)
(* Model of wws_api/process_data.py: the row-flattening interpreter        *)
(* _pull_data with its helpers _next_tags, _extract_element_data and       *)
(* _shorten_column_name, and its caller to_pyarrow with the rename pass;   *)
(* and of _generate_requests of wws_api/request_data.py.                   *)
(*                                                                         *)
(* Strings are sequences of tokens.  A tag expression such as              *)
(*     "./wd:a||./wd:b|=K^^N"                                              *)
(* is <<".", "/wd:", "a", "||", ".", "/wd:", "b", "|=", "K", "^^", "N">>:  *)
(* the markers of the mini-language ("*", "~", "^^", "@@", "%", "?=",      *)
(* "||", "|=") and the path separator "/wd:" are one token each, so that   *)
(* Python's  in, split, replace and join  on them are token operations.    *)
(* Column keys built by _extract_element_data and the argument of          *)
(* _shorten_column_name are sequences of one-character tokens, so len()    *)
(* and slicing are exact there.                                            *)
(*                                                                         *)
(* A dict is a function from keys (token sequences) to values; insertion   *)
(* order of dict keys is not modelled.                                     *)
(***************************************************************************)
EXTENDS Integers, Sequences, FiniteSets, TLC

VARIABLES
    responses,          \* _pull_data argument: list of record elements (handles)
    tags,               \* _pull_data argument: list of tag expressions
    allow_collections,  \* _pull_data argument
    row_list,           \* local row_list
    ei,                 \* number of elements of responses already taken by the for loop
    ti,                 \* index in tags of the next tag of the inner for loop
    row_dict,           \* local row_dict
    added_to_list,      \* local added_to_list
    elements,           \* local elements (line 254)
    nested_tags,        \* local nested_tags (line 255)
    pc,                 \* position in the code
    exc,                \* the exception that left the function, "none" if none
    col,                \* _shorten_column_name argument col
    max_length,         \* _shorten_column_name argument max_length
    new_col,            \* _shorten_column_name result
    api_responses,      \* to_pyarrow argument responses: list of XML documents
    list_of_xml_tree,   \* to_pyarrow local list_of_xml_tree (line 142)
    column_names,       \* column names of the table of to_pyarrow (lines 153-166)
    xml_template,       \* _generate_requests argument xml_template
    pages,              \* _generate_requests local pages
    tasks,              \* _generate_requests local tasks, with the state of each task
    finished,           \* the order in which the event loop completed the tasks
    web_calls           \* _generate_requests local web_calls

vars == <<responses, tags, allow_collections, row_list, ei, ti, row_dict,
          added_to_list, elements, nested_tags, pc, exc, col, max_length, new_col,
          api_responses, list_of_xml_tree, column_names,
          xml_template, pages, tasks, finished, web_calls>>

tableVars == <<api_responses, list_of_xml_tree, column_names>>

requestVars == <<xml_template, pages, tasks, finished, web_calls>>

pullVars == <<responses, tags, allow_collections, row_list, ei, ti, row_dict,
              added_to_list, elements, nested_tags, exc>>

shortenVars == <<col, max_length, new_col>>

(***************************************************************************)
(* Bounds of the model.                                                    *)
(***************************************************************************)
MaxTags == 3        \* longest directive list
MaxRecords == 2     \* longest record-element list
MaxMatch == 2       \* largest number of elements one path matches in a record
MaxLen == 5         \* longest column name given to _shorten_column_name

(***************************************************************************)
(* Python values.                                                          *)
(***************************************************************************)
None == "<None>"

Scalar(v) == [coll |-> FALSE, v |-> <<v>>]

List(vs) == [coll |-> TRUE, v |-> vs]

EmptyDict == [k \in {} |-> Scalar(None)]

\* dict.update(d): keys of d are set, other keys are kept
Update(r, d) == [k \in (DOMAIN r) \cup (DOMAIN d) |-> IF k \in DOMAIN d THEN d[k] ELSE r[k]]

\* {key: value}
Entry(key, value) == [k \in {key} |-> value]

Range(s) == {s[i] : i \in 1..Len(s)}

\* sub in s, for a one-token sub
Contains(s, tok) == \E i \in 1..Len(s) : s[i] = tok

\* s.replace(tok, '')
Remove(s, tok) == SelectSeq(s, LAMBDA x : x # tok)

\* s.split(sep), for a one-token sep
RECURSIVE Split(_, _)
Split(s, sep) ==
    IF Contains(s, sep)
    THEN LET i == CHOOSE i \in 1..Len(s) : s[i] = sep /\ \A j \in 1..(i-1) : s[j] # sep
         IN  <<SubSeq(s, 1, i-1)>> \o Split(SubSeq(s, i+1, Len(s)), sep)
    ELSE <<s>>

\* sep.join(parts)
RECURSIVE Join(_, _)
Join(parts, sep) ==
    IF parts = <<>> THEN <<>>
    ELSE IF Len(parts) = 1 THEN parts[1]
    ELSE parts[1] \o <<sep>> \o Join(Tail(parts), sep)

\* s.strip(): leading and trailing blanks removed
RECURSIVE Strip(_)
Strip(s) ==
    IF s # <<>> /\ s[1] = " " THEN Strip(Tail(s))
    ELSE IF s # <<>> /\ s[Len(s)] = " " THEN Strip(SubSeq(s, 1, Len(s)-1))
    ELSE s

\* str.lower() of one token
LowerTok(t) ==
    CASE t = "A" -> "a" [] t = "B" -> "b" [] t = "C" -> "c" [] t = "P" -> "p"
      [] t = "TA" -> "ta" [] t = "A1" -> "a1"
      [] OTHER -> t

Lower(s) == [i \in 1..Len(s) |-> LowerTok(s[i])]

(***************************************************************************)
(* XML elements (lxml).  A node has a local tag name, a text, attributes   *)
(* in document order and children in document order.                      *)
(***************************************************************************)
Node(tag, text, attrib, kids) == [tag |-> tag, text |-> text, attrib |-> attrib, kids |-> kids]

Attr(n, v) == [n |-> n, v |-> v]

\* element.get(name): the attribute's value, None when absent
Get(e, name) ==
    IF \E i \in 1..Len(e.attrib) : e.attrib[i].n = name
    THEN e.attrib[CHOOSE i \in 1..Len(e.attrib) : e.attrib[i].n = name].v
    ELSE None

\* all children of the nodes of a list, in document order
RECURSIVE KidsOf(_)
KidsOf(nodes) == IF nodes = <<>> THEN <<>> ELSE nodes[1].kids \o KidsOf(Tail(nodes))

PredKinds == {"ID[contains(lower(@wd:type),", "ID[contains(lower(text()),",
              "*[contains(lower(local-name()),"}

\* the predicate step  kind term ]  applied to one candidate child
PredHolds(n, kind, term) ==
    CASE kind = "ID[contains(lower(@wd:type)," -> n.tag = "ID" /\ LowerTok(Get(n, "type")) = term
      [] kind = "ID[contains(lower(text()),"   -> n.tag = "ID" /\ LowerTok(n.text) = term
      [] OTHER                                 -> LowerTok(n.tag) = term

\* steps of a path: ("/wd:" name)*, a name being a tag or  kind term "]"
RECURSIVE ValidSteps(_)
ValidSteps(p) ==
    \/ p = <<>>
    \/ /\ Len(p) >= 4 /\ p[1] = "/wd:" /\ p[2] \in PredKinds /\ p[4] = "]"
       /\ ValidSteps(SubSeq(p, 5, Len(p)))
    \/ /\ Len(p) >= 2 /\ p[1] = "/wd:" /\ p[2] \notin PredKinds
       /\ p[2] \notin {"|=", "||", "%", "?=", "]", "/wd:", "/@wd:", "."}
       /\ ValidSteps(SubSeq(p, 3, Len(p)))

\* a path lxml can compile: "." followed by steps
ValidPath(p) == p # <<>> /\ p[1] = "." /\ ValidSteps(Tail(p))

RECURSIVE Steps(_, _)
Steps(nodes, p) ==
    IF p = <<>> THEN nodes
    ELSE IF p[2] \in PredKinds
         THEN Steps(SelectSeq(KidsOf(nodes), LAMBDA n : PredHolds(n, p[2], p[3])),
                    SubSeq(p, 5, Len(p)))
         ELSE Steps(SelectSeq(KidsOf(nodes), LAMBDA n : n.tag = p[2]), SubSeq(p, 3, Len(p)))

\* element.xpath(path, namespaces=ns) for a valid element path
XPath(e, p) == Steps(<<e>>, Tail(p))

\* element.findall('./' + path): a leading "./" keeps the context node
FindAll(e, p) == IF p # <<>> /\ p[1] = "./" THEN XPath(e, Tail(p)) ELSE XPath(e, p)

(***************************************************************************)
(* The record elements of the model.  Elem(h) is a record element in which *)
(* the path a matches h elements, b, c and ID one element each, d none,    *)
(* p (a parent with a subtree) h elements, q (a parent with a subtree) one *)
(* element and r (the repeated child) h + 1 elements.  Texts differ from match to match and from record to    *)
(* record, so that order and origin are visible in the rows.               *)
(***************************************************************************)
ATxt == <<"a1", "a2", "a3", "a4", "a5">>

ATy == <<"ta1", "ta2", "ta3", "ta4", "ta5">>

BTxt == <<"b0", "b1", "b2", "b3", "b4">>

XTxt == <<"x1", "x2", "x3", "x4", "x5">>

YTxt == <<"y1", "y2", "y3", "y4", "y5">>

RTxt == <<"r1", "r2", "r3", "r4", "r5">>

ANode(i) == Node("a", ATxt[i], <<Attr("type", ATy[i])>>, <<>>)

BNode(h) == Node("b", BTxt[h + 1], <<Attr("type", "TB")>>, <<>>)

CNode == Node("c", "c1", <<Attr("type", "TC")>>, <<>>)

IDNode == Node("ID", "a1", <<Attr("type", "TA")>>, <<>>)

PNode(i) == Node("p", None, <<>>,
                 << Node("x", XTxt[i], <<>>, <<>>),
                    Node("y", None, <<Attr("type", "ty")>>, <<Node("x", YTxt[i], <<>>, <<>>)>>) >>)

QNode(h) == Node("q", None, <<>>, <<Node("x", BTxt[h + 1], <<Attr("type", "tq")>>, <<>>)>>)

RNode(j) == Node("r", None, <<>>, <<Node("a", RTxt[j], <<Attr("type", "TR")>>, <<>>)>>)

Elem(h) == Node("rec", None,
                IF h >= 1 THEN <<Attr("T", ATy[h])>> ELSE <<>>,
                [i \in 1..h |-> ANode(i)] \o <<BNode(h), CNode, IDNode>>
                    \o [i \in 1..h |-> PNode(i)] \o <<QNode(h)>> \o [j \in 1..(h + 1) |-> RNode(j)])

Handles == 0..MaxMatch

\* the record-element lists: up to MaxRecords consecutive elements of the family
ResponseLists ==
    {<<>>} \cup {[i \in 1..k |-> (s + i - 1) % (MaxMatch + 1)] : k \in 1..MaxRecords, s \in Handles}

(***************************************************************************)
(* The tag expressions of the model, as to_pyarrow hands them to           *)
(* _pull_data (lines 147-148: "./wd:" prefixed, ">>" replaced by "/wd:",   *)
(* "||" replaced by "||./wd:").                                            *)
(***************************************************************************)
TagVocabulary ==
    { <<".", "/wd:", "a">>,                                              \* plain
      <<".", "/wd:", "b", "^^", "N">>,                                    \* plain, renamed
      <<".", "/wd:", "@@", "T">>,                                         \* attribute
      <<".", "/wd:", "~", "p">>,                                          \* flatten-all
      <<".", "/wd:", "~", "q">>,                                          \* flatten-all
      <<".", "/wd:", "*", "r">>,                                          \* repeat-anchor
      <<".", "/wd:", "a", "||", ".", "/wd:", "b", "||", ".", "/wd:", "c", "|=", "K">>,
      <<".", "/wd:", "d", "||", ".", "/wd:", "a", "|=", "L", "^^", "M">>,
      <<".", "/wd:", "a", "||", ".", "/wd:", "b">>,                       \* OR-chain without |=
      <<".", "/wd:", "%", "A", "?=", "tag", "%">>,                        \* wildcard
      <<".", "/wd:", "%", "A", "?=", "tag", "||",                         \* wildcards: one % missing,
        ".", "/wd:", "%", "A", "?=", "name", "%", "||",                   \*   unknown kind,
        ".", "/wd:", "%", "A", "%">>,                                     \*   ?= missing
      <<".", "/wd:", "%", "A", "?=", "tag", "%", "||",                    \* wildcard OR-chain
        ".", "/wd:", "%", "TA", "?=", "type", "%", "|=", "J">> }

(***************************************************************************)
(* _shorten_column_name, on sequences of characters.  Indices are Python's *)
(* (from 0); s[i + 1] is Python's s[i].                                    *)
(***************************************************************************)
\* s.find(ch, start): the first index >= start holding ch, -1 when none
Find(s, ch, start) ==
    IF \E i \in start..(Len(s) - 1) : s[i + 1] = ch
    THEN CHOOSE i \in start..(Len(s) - 1) :
             s[i + 1] = ch /\ \A j \in start..(i - 1) : s[j + 1] # ch
    ELSE -1

\* s.rfind(ch, 0, end): the last index < end holding ch, -1 when none
RFind(s, ch, end) ==
    IF \E i \in 0..(end - 1) : s[i + 1] = ch
    THEN CHOOSE i \in 0..(end - 1) :
             s[i + 1] = ch /\ \A j \in (i + 1)..(end - 1) : s[j + 1] # ch
    ELSE -1

\* s[i:]
SliceFrom(s, i) == SubSeq(s, i + 1, Len(s))

\* _shorten_column_name with the underscore searched from the start of the
\* string instead of from start_index
ShortenFindFromZero(c, maxlen) ==
    IF Len(c) <= maxlen THEN c
    ELSE LET start_index == Len(c) - maxlen
             next_sep_index == Find(c, "_", 0)
         IN  IF next_sep_index # -1 /\ Len(c) - next_sep_index - 1 <= maxlen
             THEN SliceFrom(c, next_sep_index + 1)
             ELSE LET prev_sep_index == RFind(c, "_", start_index)
                  IN  IF prev_sep_index # -1 /\ Len(c) - prev_sep_index - 1 <= maxlen
                      THEN SliceFrom(c, prev_sep_index + 1)
                      ELSE SliceFrom(c, Len(c) - maxlen)

ShortenColumnName(c, maxlen) ==
    IF Len(c) <= maxlen THEN c
    ELSE LET start_index == Len(c) - maxlen
             next_sep_index == Find(c, "_", start_index)
         IN  IF next_sep_index # -1 /\ Len(c) - next_sep_index - 1 <= maxlen
             THEN SliceFrom(c, next_sep_index + 1)
             ELSE LET prev_sep_index == RFind(c, "_", start_index)
                  IN  IF prev_sep_index # -1 /\ Len(c) - prev_sep_index - 1 <= maxlen
                      THEN SliceFrom(c, prev_sep_index + 1)
                      ELSE SliceFrom(c, Len(c) - maxlen)

(***************************************************************************)
(* _extract_element_data.  existing_keys is only ever added to and never   *)
(* read, so it is left out.                                                *)
(***************************************************************************)
ExtractMaxLength == 63

\* the characters of a local name
Chars(name) ==
    CASE name = "type" -> <<"t", "y", "p", "e">>
      [] name = "ID"   -> <<"I", "D">>
      [] name = "rec"  -> <<"r", "e", "c">>
      [] OTHER         -> <<name>>

RECURSIVE ExtractAttrs(_, _, _)
ExtractAttrs(attrib, key, data) ==
    IF attrib = <<>> THEN data
    ELSE LET attr_key == ShortenColumnName(key \o <<"_">> \o Chars(attrib[1].n), ExtractMaxLength)
         IN  ExtractAttrs(Tail(attrib), key, Update(data, Entry(attr_key, Scalar(attrib[1].v))))

RECURSIVE ExtractChildren(_, _, _)
ExtractChildren(kids, prefix, data) ==
    IF kids = <<>> THEN data
    ELSE LET child == kids[1]
             tag_name == Chars(child.tag)
             key == ShortenColumnName(IF prefix # <<>> THEN prefix \o <<"_">> \o tag_name
                                                        ELSE tag_name, ExtractMaxLength)
             with_attrs == ExtractAttrs(child.attrib, key, data)
             with_child ==
                 IF child.kids # <<>>
                 THEN Update(with_attrs, ExtractChildren(child.kids, key, EmptyDict))
                 ELSE Update(with_attrs, Entry(key, Scalar(child.text)))
         IN  ExtractChildren(Tail(kids), prefix, with_child)

ExtractElementData(element, prefix) == ExtractChildren(element.kids, prefix, EmptyDict)

\* the tags from the first occurrence of curr_tag on, curr_tag included
NextTagsInclusive(ts, curr_tag) ==
    IF \E i \in 1..Len(ts) : ts[i] = curr_tag
    THEN LET first == CHOOSE i \in 1..Len(ts) :
                          ts[i] = curr_tag /\ \A j \in 1..(i - 1) : ts[j] # curr_tag
         IN  SubSeq(ts, first, Len(ts))
    ELSE <<>>

(***************************************************************************)
(* _next_tags: the tags after the first occurrence of curr_tag.            *)
(***************************************************************************)
NextTags(ts, curr_tag) ==
    IF \E i \in 1..Len(ts) : ts[i] = curr_tag
    THEN LET first == CHOOSE i \in 1..Len(ts) :
                          ts[i] = curr_tag /\ \A j \in 1..(i - 1) : ts[j] # curr_tag
         IN  SubSeq(ts, first + 1, Len(ts))
    ELSE <<>>

(***************************************************************************)
(* One iteration of "for tag in tags" of _pull_data, branch by branch.     *)
(* An outcome is what the iteration does: the exception it raises ("none"  *)
(* when it completes), the row_dict it leaves, the rows it appends to      *)
(* row_list, and whether it sets added_to_list.                            *)
(***************************************************************************)
Outcome(e, rd, rows, added) == [exc |-> e, row_dict |-> rd, rows |-> rows, added |-> added]

Texts(elem) == [i \in 1..Len(elem) |-> elem[i].text]

\* tag.replace(sub, ''), for a sub of several tokens
RECURSIVE RemoveSub(_, _)
RemoveSub(s, sub) ==
    IF sub = <<>> \/ Len(s) < Len(sub) THEN s
    ELSE IF SubSeq(s, 1, Len(sub)) = sub THEN RemoveSub(SubSeq(s, Len(sub) + 1, Len(s)), sub)
    ELSE <<s[1]>> \o RemoveSub(Tail(s), sub)

\* lines 299-302: [tag, name] after the '^^' split
RenameSplit(tag) == IF Contains(tag, "^^") THEN Split(tag, "^^") ELSE <<tag, tag>>

\* lines 332-354: the lookup expression of one wildcard alternative, as a list
\* of zero (alternative skipped with a diagnostic) or one expression
WildcardAlternative(i) ==
    LET parts == Split(i, "%")
    IN  IF Len(parts) # 3 THEN <<>>
        ELSE LET sp == Split(parts[2], "?=")
             IN  IF Len(sp) # 2 THEN <<>>
                 ELSE LET xpath_to_search == Strip(parts[1])
                          search_term == Strip(sp[1])
                          data_type == Strip(sp[2])
                          end_of_path == Strip(parts[3])
                          kind == CASE data_type = <<"type">> -> "ID[contains(lower(@wd:type),"
                                    [] data_type = <<"text">> -> "ID[contains(lower(text()),"
                                    [] data_type = <<"tag">>  -> "*[contains(lower(local-name()),"
                                    [] OTHER -> "unknown"
                      IN  IF kind = "unknown" THEN <<>>
                          ELSE <<xpath_to_search \o <<kind>> \o Lower(search_term) \o <<"]">>
                                     \o end_of_path>>

RECURSIVE WildcardAlternatives(_)
WildcardAlternatives(multi_tags) ==
    IF multi_tags = <<>> THEN <<>>
    ELSE WildcardAlternative(multi_tags[1]) \o WildcardAlternatives(Tail(multi_tags))

\* lines 325-355: the tag with its wildcards expanded
ExpandWildcards(tag) ==
    IF Contains(tag, "%") THEN Join(WildcardAlternatives(Split(tag, "||")), "||") ELSE tag

\* the loop over the alternatives without its break: every alternative is
\* evaluated and the last one matching exactly one element wins
RECURSIVE OrLoopNoBreak(_, _, _)
OrLoopNoBreak(element, alts, k) ==
    IF ~ValidPath(alts[k]) THEN [exc |-> "XPathEvalError", elem |-> <<>>, hit |-> FALSE]
    ELSE LET elem == XPath(element, alts[k])
             rest == IF k = Len(alts) THEN [exc |-> "none", elem |-> elem, hit |-> FALSE]
                     ELSE OrLoopNoBreak(element, alts, k + 1)
         IN  IF rest.exc # "none" \/ rest.hit \/ Len(elem) # 1 THEN rest
             ELSE [exc |-> "none", elem |-> elem, hit |-> TRUE]

\* lines 363-368: the loop over the alternatives from the k-th on; elem is the
\* result of the last alternative evaluated, hit whether it matched one element
RECURSIVE OrLoop(_, _, _)
OrLoop(element, alts, k) ==
    IF ~ValidPath(alts[k]) THEN [exc |-> "XPathEvalError", elem |-> <<>>, hit |-> FALSE]
    ELSE LET elem == XPath(element, alts[k])
         IN  IF Len(elem) = 1 THEN [exc |-> "none", elem |-> elem, hit |-> TRUE]
             ELSE IF k = Len(alts) THEN [exc |-> "none", elem |-> elem, hit |-> FALSE]
             ELSE OrLoop(element, alts, k + 1)

\* the fan-out that leaves added_to_list as it was, so that the row the
\* copies were made from is appended as well
AddElementRowAppended(name, elem, rd, ac) ==
    IF Len(elem) = 1
    THEN Outcome("none", Update(rd, Entry(name, Scalar(elem[1].text))), <<>>, FALSE)
    ELSE IF Len(elem) > 1
    THEN IF ac
         THEN Outcome("none", Update(rd, Entry(name, List(Texts(elem)))), <<>>, FALSE)
         ELSE Outcome("none", rd,
                      [i \in 1..Len(elem) |-> Update(rd, Entry(name, Scalar(elem[i].text)))],
                      FALSE)
    ELSE Outcome("none", rd, <<>>, FALSE)

\* the fan-out with every forked row given the text of the first match
AddElementFirstText(name, elem, rd, ac) ==
    IF Len(elem) = 1
    THEN Outcome("none", Update(rd, Entry(name, Scalar(elem[1].text))), <<>>, FALSE)
    ELSE IF Len(elem) > 1
    THEN IF ac
         THEN Outcome("none", Update(rd, Entry(name, List(Texts(elem)))), <<>>, FALSE)
         ELSE Outcome("none", rd,
                      [i \in 1..Len(elem) |-> Update(rd, Entry(name, Scalar(elem[1].text)))],
                      TRUE)
    ELSE Outcome("none", rd, <<>>, FALSE)

\* lines 373-399: what is done with the elements found
AddElement(name, elem, rd, ac) ==
    IF Len(elem) = 1
    THEN Outcome("none", Update(rd, Entry(name, Scalar(elem[1].text))), <<>>, FALSE)
    ELSE IF Len(elem) > 1
    THEN IF ac
         THEN Outcome("none", Update(rd, Entry(name, List(Texts(elem)))), <<>>, FALSE)
         ELSE Outcome("none", rd,
                      [i \in 1..Len(elem) |-> Update(rd, Entry(name, Scalar(elem[i].text)))],
                      TRUE)
    ELSE Outcome("none", rd, <<>>, FALSE)

\* lines 360-371: the elements found for the expanded tag.  For an OR-chain,
\* hit says that an alternative matched exactly one element and key is the
\* '|=' rename target
Select(element, tag) ==
    IF Contains(tag, "||")
    THEN LET typename == Split(tag, "|=")
         IN  IF Len(typename) < 2
             THEN [exc |-> "IndexError", elem |-> <<>>, hit |-> FALSE, key |-> <<>>]
             ELSE LET alts == Split(RemoveSub(tag, <<"|=">> \o typename[2]), "||")
                      r == OrLoop(element, alts, 1)
                  IN  [exc |-> r.exc, elem |-> r.elem, hit |-> r.hit, key |-> typename[2]]
    ELSE IF ~ValidPath(tag)
    THEN [exc |-> "XPathEvalError", elem |-> <<>>, hit |-> FALSE, key |-> <<>>]
    ELSE [exc |-> "none", elem |-> XPath(element, tag), hit |-> FALSE, key |-> <<>>]

\* the OR-chain recording the discriminator only, the text of the match dropped
ResolveDiscardsText(element, tag, name, rd, ac) ==
    LET s == Select(element, tag)
    IN  IF s.exc # "none" THEN Outcome(s.exc, rd, <<>>, FALSE)
        ELSE IF s.hit
        THEN Outcome("none", Update(rd, Entry(s.key, Scalar(Get(s.elem[1], "type")))),
                     <<>>, FALSE)
        ELSE AddElement(name, s.elem, rd, ac)

\* lines 360-399, for the expanded tag
Resolve(element, tag, name, rd, ac) ==
    LET s == Select(element, tag)
    IN  IF s.exc # "none" THEN Outcome(s.exc, rd, <<>>, FALSE)
        ELSE IF s.hit
        THEN AddElement(name, s.elem,
                        Update(rd, Entry(s.key, Scalar(Get(s.elem[1], "type")))), ac)
        ELSE AddElement(name, s.elem, rd, ac)

\* lines 296-399 without the attribute branch: plain, wildcard and OR-chain tags
LookupOutcome(element, tag0, rd, ac) ==
    LET split == RenameSplit(tag0)
    IN  IF Len(split) # 2 THEN Outcome("ValueError", rd, <<>>, FALSE)
        ELSE Resolve(element, ExpandWildcards(split[1]), split[2], rd, ac)

\* tag.replace(sub, by), for a sub of several tokens
RECURSIVE ReplaceSub(_, _, _)
ReplaceSub(s, sub, by) ==
    IF sub = <<>> \/ Len(s) < Len(sub) THEN s
    ELSE IF SubSeq(s, 1, Len(sub)) = sub
         THEN by \o ReplaceSub(SubSeq(s, Len(sub) + 1, Len(s)), sub, by)
    ELSE <<s[1]>> \o ReplaceSub(Tail(s), sub, by)

\* an attribute path lxml can compile: "." steps "/@wd:" name
ValidAttrPath(p) ==
    /\ Len(p) >= 3 /\ p[1] = "." /\ p[Len(p) - 1] = "/@wd:"
    /\ ValidSteps(SubSeq(p, 2, Len(p) - 2))

\* element.xpath of an attribute path: the values of the attribute on the
\* elements the steps lead to, in document order
XPathAttrs(e, p) ==
    LET owners == Steps(<<e>>, SubSeq(p, 2, Len(p) - 2))
        having == SelectSeq(owners, LAMBDA n : Get(n, p[Len(p)]) # None)
    IN  [i \in 1..Len(having) |-> Get(having[i], p[Len(p)])]

\* lines 307-318: the attribute branch
AttributeOutcome(element, tag0, rd) ==
    LET split == RenameSplit(tag0)
    IN  IF Len(split) # 2 THEN Outcome("ValueError", rd, <<>>, FALSE)
        ELSE LET name == split[2]
                 tmp_tag == ReplaceSub(split[1], <<"/wd:", "@@">>, <<"/@wd:">>)
                 tag == Remove(split[1], "@@")
                 t == RemoveSub(tag, <<".", "/wd:">>)
                 elem == IF Len(t) = 1 THEN Get(element, t[1]) ELSE None
             IN  IF elem # None THEN Outcome("none", Update(rd, Entry(name, Scalar(elem))), <<>>, FALSE)
                 ELSE IF ~ValidAttrPath(tmp_tag) THEN Outcome("XPathEvalError", rd, <<>>, FALSE)
                 ELSE LET found == XPathAttrs(element, tmp_tag)
                      IN  Outcome("none",
                                  Update(rd, Entry(name, Scalar(IF found # <<>> THEN found[1]
                                                                                 ELSE None))),
                                  <<>>, FALSE)

\* lines 273-280: per key, the values of the matched elements that have it
CollectedData(nested) ==
    LET keys == UNION {DOMAIN nested[i] : i \in 1..Len(nested)}
        having(k) == SelectSeq(nested, LAMBDA d : k \in DOMAIN d)
    IN  [k \in keys |-> List([i \in 1..Len(having(k)) |-> having(k)[i][k].v[1]])]

\* lines 263-295: the flatten-all branch; it always sets added_to_list
FlattenOutcome(element, tag, rd, ac) ==
    LET parent_path == Strip(Remove(tag, "~"))
    IN  IF ~ValidPath(parent_path) THEN Outcome("XPathEvalError", rd, <<>>, FALSE)
        ELSE LET elems == XPath(element, parent_path)
                 nested == [i \in 1..Len(elems) |-> ExtractElementData(elems[i], <<>>)]
             IN  IF Len(elems) = 1 THEN Outcome("none", Update(rd, nested[1]), <<>>, TRUE)
                 ELSE IF Len(elems) > 1
                 THEN IF ac
                      THEN Outcome("none", Update(rd, CollectedData(nested)), <<>>, TRUE)
                      ELSE Outcome("none", rd,
                                   [i \in 1..Len(elems) |-> Update(rd, nested[i])], TRUE)
                 ELSE Outcome("none", Update(rd, Entry(tag, Scalar(None))), <<>>, TRUE)

(***************************************************************************)
(* _pull_data as a state machine.  pc = "for_element": at the head of      *)
(* "for element in responses"; "for_tag": at the head of "for tag in       *)
(* tags" for element responses[ei]; "returned": line 404 reached;          *)
(* "raised": an exception left the function.  to_pyarrow calls _pull_data  *)
(* without high_level_tags (line 150), and line 256 is the only other      *)
(* call site, so high_level_tags is None in every call that runs.          *)
(***************************************************************************)
\* to_pyarrow and _generate_requests not running
IdleTable ==
    /\ api_responses = <<>>
    /\ list_of_xml_tree = <<>>
    /\ column_names = {}

IdleRequests ==
    /\ xml_template = <<>>
    /\ pages = 0
    /\ tasks = <<>>
    /\ finished = <<>>
    /\ web_calls = <<>>

element == Elem(responses[ei])

tag == tags[ti]

\* the directive lists: no directive is declared twice, so that the declared
\* output columns are distinct
TagLists ==
    {q \in UNION {[1..k -> TagVocabulary] : k \in 0..MaxTags} :
        \A i, j \in 1..Len(q) : q[i] = q[j] => i = j}

Init ==
    /\ responses \in ResponseLists
    /\ tags \in TagLists
    /\ allow_collections \in BOOLEAN
    /\ row_list = <<>>
    /\ ei = 0
    /\ ti = 1
    /\ row_dict = EmptyDict
    /\ added_to_list = FALSE
    /\ elements = <<>>
    /\ nested_tags = <<>>
    /\ pc = "for_element"
    /\ exc = "none"
    /\ col = <<>>
    /\ max_length = 1
    /\ new_col = <<>>
    /\ IdleTable
    /\ IdleRequests

\* lines 243-249: the next element is taken
NextElement ==
    /\ pc = "for_element"
    /\ ei < Len(responses)
    /\ ei' = ei + 1
    /\ added_to_list' = FALSE
    /\ row_dict' = EmptyDict
    /\ ti' = 1
    /\ pc' = "for_tag"
    /\ UNCHANGED <<responses, tags, allow_collections, row_list, elements, nested_tags, exc>>
    /\ UNCHANGED shortenVars
    /\ UNCHANGED <<tableVars, requestVars>>

\* the effect of an iteration of the tag loop that did not break
Continue(o) ==
    /\ IF o.exc # "none"
       THEN /\ pc' = "raised"
            /\ exc' = o.exc
            /\ UNCHANGED <<row_dict, row_list, added_to_list, ti>>
       ELSE /\ pc' = "for_tag"
            /\ exc' = exc
            /\ row_dict' = o.row_dict
            /\ row_list' = row_list \o o.rows
            /\ added_to_list' = (added_to_list \/ o.added)
            /\ ti' = ti + 1
    /\ UNCHANGED <<responses, tags, allow_collections, elements, nested_tags>>
    /\ UNCHANGED shortenVars
    /\ UNCHANGED <<tableVars, requestVars>>

\* lines 253-262: a repeat-anchor tag.  The name pull_data called on line 256
\* is defined nowhere in the module (the function is _pull_data), so the
\* call raises NameError after elements and nested_tags have been computed.
RepeatAnchorTag ==
    /\ pc = "for_tag"
    /\ ti <= Len(tags)
    /\ Contains(tag, "*")
    /\ elements' = FindAll(element, <<"./">> \o Remove(tag, "*"))
    /\ nested_tags' = NextTags(tags, tag)
    /\ pc' = "raised"
    /\ exc' = "NameError"
    /\ UNCHANGED <<responses, tags, allow_collections, row_list, ei, ti, row_dict, added_to_list>>
    /\ UNCHANGED shortenVars
    /\ UNCHANGED <<tableVars, requestVars>>

\* lines 263-295: a flatten-all tag
FlattenAllTag ==
    /\ pc = "for_tag"
    /\ ti <= Len(tags)
    /\ ~Contains(tag, "*")
    /\ Contains(tag, "~")
    /\ Continue(FlattenOutcome(element, tag, row_dict, allow_collections))
    /\ UNCHANGED ei

\* lines 296-318: an attribute tag
AttributeTag ==
    /\ pc = "for_tag"
    /\ ti <= Len(tags)
    /\ ~Contains(tag, "*")
    /\ ~Contains(tag, "~")
    /\ Contains(RenameSplit(tag)[1], "@@")
    /\ Continue(AttributeOutcome(element, tag, row_dict))
    /\ UNCHANGED ei

\* lines 296-302 and 320-399: a plain, wildcard or OR-chain tag
LookupTag ==
    /\ pc = "for_tag"
    /\ ti <= Len(tags)
    /\ ~Contains(tag, "*")
    /\ ~Contains(tag, "~")
    /\ ~Contains(RenameSplit(tag)[1], "@@")
    /\ Continue(LookupOutcome(element, tag, row_dict, allow_collections))
    /\ UNCHANGED ei

\* lines 401-402: the tag loop is over
EndOfTags ==
    /\ pc = "for_tag"
    /\ ti > Len(tags)
    /\ row_list' = IF ~added_to_list THEN Append(row_list, row_dict) ELSE row_list
    /\ pc' = "for_element"
    /\ UNCHANGED <<responses, tags, allow_collections, ei, ti, row_dict, added_to_list,
                   elements, nested_tags, exc>>
    /\ UNCHANGED shortenVars
    /\ UNCHANGED <<tableVars, requestVars>>

\* line 404
ReturnRows ==
    /\ pc = "for_element"
    /\ ei = Len(responses)
    /\ pc' = "returned"
    /\ UNCHANGED pullVars
    /\ UNCHANGED shortenVars
    /\ UNCHANGED <<tableVars, requestVars>>

Next ==
    \/ NextElement
    \/ RepeatAnchorTag
    \/ FlattenAllTag
    \/ AttributeTag
    \/ LookupTag
    \/ EndOfTags
    \/ ReturnRows

Spec == Init /\ [][Next]_vars

(***************************************************************************)
(* _shorten_column_name called on its own.                                 *)
(***************************************************************************)
Alphabet == {"a", "b", "_"}

ColumnNames == UNION {[1..n -> Alphabet] : n \in 0..MaxLen}

InitShorten ==
    /\ col \in ColumnNames
    /\ max_length \in 1..MaxLen
    /\ new_col = <<>>
    /\ pc = "shorten"
    /\ responses = <<>>
    /\ tags = <<>>
    /\ allow_collections = FALSE
    /\ row_list = <<>>
    /\ ei = 0
    /\ ti = 1
    /\ row_dict = EmptyDict
    /\ added_to_list = FALSE
    /\ elements = <<>>
    /\ nested_tags = <<>>
    /\ exc = "none"
    /\ IdleTable
    /\ IdleRequests

\* lines 463-485
ShortenCall ==
    /\ pc = "shorten"
    /\ new_col' = ShortenColumnName(col, max_length)
    /\ pc' = "shortened"
    /\ UNCHANGED <<col, max_length>>
    /\ UNCHANGED pullVars
    /\ UNCHANGED <<tableVars, requestVars>>

NextShorten == ShortenCall

SpecShorten == InitShorten /\ [][NextShorten]_vars

(***************************************************************************)
(* Vocabulary of the properties.                                           *)
(***************************************************************************)
IsAnchor(t) == Contains(t, "*")

IsFlatten(t) == ~Contains(t, "*") /\ Contains(t, "~")

IsLookup(t) == ~Contains(t, "*") /\ ~Contains(t, "~") /\ ~Contains(RenameSplit(t)[1], "@@")

\* a path and nothing else, with or without a '^^' rename
IsPlain(t) == IsLookup(t) /\ ValidPath(RenameSplit(t)[1])

\* an OR-chain with its '|=' rename target, every alternative a path
IsOrChain(t) ==
    /\ IsLookup(t)
    /\ Contains(RenameSplit(t)[1], "||")
    /\ Contains(RenameSplit(t)[1], "|=")
    /\ LET x == ExpandWildcards(RenameSplit(t)[1])
       IN  /\ Len(Split(x, "|=")) = 2
           /\ \A alt \in Range(Split(Split(x, "|=")[1], "||")) : ValidPath(alt)

\* the alternatives of an OR-chain in declared order, and its rename target
Alternatives(t) == Split(Split(ExpandWildcards(RenameSplit(t)[1]), "|=")[1], "||")

RenameTarget(t) == Split(ExpandWildcards(RenameSplit(t)[1]), "|=")[2]

\* the output column of a directive
OutputName(t) == RenameSplit(t)[2]

\* a malformed directive: a wildcard alternative without its two '%' or its
\* '?=' or with an unknown kind, or an OR-chain without '|='
Malformed(t) ==
    LET x == RenameSplit(t)[1]
    IN  \/ Contains(x, "%") /\ \E alt \in Range(Split(x, "||")) : WildcardAlternative(alt) = <<>>
        \/ Contains(x, "||") /\ ~Contains(x, "|=")

\* the elements a well-formed directive resolves to in record element e
Matched(e, t) ==
    IF IsFlatten(t) THEN XPath(e, Strip(Remove(t, "~")))
    ELSE IF IsLookup(t) /\ ~Malformed(t) THEN Select(e, ExpandWildcards(RenameSplit(t)[1])).elem
    ELSE <<>>

NoAnchor == \A j \in 1..Len(tags) : ~IsAnchor(tags[j])

\* no directive can fan out in any record element
NoFanOut ==
    \A i \in 1..Len(responses), j \in 1..Len(tags) :
        allow_collections \/ Len(Matched(Elem(responses[i]), tags[j])) <= 1

(***************************************************************************)
(* C1.  Row count: for K record elements, a directive list without         *)
(* repeat-anchor and no fan-out in any element, _pull_data returns         *)
(* exactly K rows.  The code breaks it: line 294 sets added_to_list after  *)
(* every flatten-all directive, fan-out or not, so the row of an element   *)
(* with a flatten-all directive is never appended.                         *)
(***************************************************************************)
C1_RowCount ==
    (pc = "returned" /\ NoAnchor /\ NoFanOut) => Len(row_list) = Len(responses)

(***************************************************************************)
(* C2.  Fan-out: with allow_collections false, one record element, no      *)
(* repeat-anchor and exactly one directive matching M > 1 elements,        *)
(* _pull_data returns exactly M rows; row i holds the text of match i in   *)
(* the fanned column, and the rows agree on every other column.  (For a    *)
(* flatten-all directive the fanned columns are the keys flattened out of  *)
(* the matches.)                                                           *)
(***************************************************************************)
FanDirectives == {j \in 1..Len(tags) : Len(Matched(Elem(responses[1]), tags[j])) > 1}

FannedColumns(e, t) ==
    IF IsFlatten(t)
    THEN UNION {DOMAIN ExtractElementData(Matched(e, t)[i], <<>>) : i \in 1..Len(Matched(e, t))}
    ELSE {OutputName(t)}

OneFanOut ==
    /\ pc = "returned"
    /\ ~allow_collections
    /\ Len(responses) = 1
    /\ NoAnchor
    /\ Cardinality(FanDirectives) = 1

C2_FanOut ==
    OneFanOut =>
        LET j == CHOOSE j \in FanDirectives : TRUE
            e == Elem(responses[1])
            m == Matched(e, tags[j])
            others(r) == (DOMAIN r) \ FannedColumns(e, tags[j])
        IN  /\ Len(row_list) = Len(m)
            /\ ~IsFlatten(tags[j]) =>
                   \A i \in 1..Len(m) :
                       /\ OutputName(tags[j]) \in DOMAIN row_list[i]
                       /\ row_list[i][OutputName(tags[j])] = Scalar(m[i].text)
            /\ \A i, k \in 1..Len(row_list) :
                   /\ others(row_list[i]) = others(row_list[k])
                   /\ \A c \in others(row_list[i]) : row_list[i][c] = row_list[k][c]

\* three directives, the middle one fanning out, the rows carrying a shared column
C2_Witness ==
    /\ OneFanOut
    /\ Len(tags) = 3
    /\ FanDirectives = {2}
    /\ Len(row_list) = MaxMatch
    /\ \E c \in DOMAIN row_list[1] : c # OutputName(tags[2])

(***************************************************************************)
(* C3.  Collection packing: with allow_collections true, one record        *)
(* element and a plain directive matching M > 1 elements, _pull_data       *)
(* returns exactly one row, whose column for the directive is the list of  *)
(* the M texts in document order.  The code breaks it when the list also   *)
(* holds a flatten-all directive (the defect of C1): no row is returned.   *)
(***************************************************************************)
C3_CollectionPacking ==
    (pc = "returned" /\ allow_collections /\ Len(responses) = 1) =>
        \A j \in 1..Len(tags) :
            (IsPlain(tags[j]) /\ Len(Matched(Elem(responses[1]), tags[j])) > 1) =>
                /\ Len(row_list) = 1
                /\ OutputName(tags[j]) \in DOMAIN row_list[1]
                /\ row_list[1][OutputName(tags[j])]
                       = List(Texts(Matched(Elem(responses[1]), tags[j])))

(***************************************************************************)
(* C4.  Nested repeat group: for the directive list [shared plain field,   *)
(* repeat-anchor, nested field], extraction completes and returns one row  *)
(* per child matching the anchor (the sum over the records), each row      *)
(* carrying the shared field of its record.  The code breaks it: the       *)
(* recursive call on line 256 names pull_data, which does not exist, so    *)
(* every directive list with a repeat-anchor ends in NameError.            *)
(***************************************************************************)
AnchorScenario ==
    /\ Len(tags) = 3
    /\ IsPlain(tags[1])
    /\ IsAnchor(tags[2])
    /\ IsPlain(tags[3])
    /\ Len(responses) >= 1
    /\ \A i \in 1..Len(responses) : Len(Matched(Elem(responses[i]), tags[1])) = 1
    /\ pc \in {"returned", "raised"}

Children(h) == FindAll(Elem(h), <<"./">> \o Remove(tags[2], "*"))

\* per expected row, the shared field of the record the row comes from
RECURSIVE SharedPerRow(_)
SharedPerRow(rs) ==
    IF rs = <<>> THEN <<>>
    ELSE [i \in 1..Len(Children(rs[1])) |-> Matched(Elem(rs[1]), tags[1])[1].text]
             \o SharedPerRow(Tail(rs))

C4_NestedRows ==
    AnchorScenario =>
        /\ pc = "returned"
        /\ Len(row_list) = Len(SharedPerRow(responses))
        /\ \A k \in 1..Len(row_list) :
               /\ OutputName(tags[1]) \in DOMAIN row_list[k]
               /\ row_list[k][OutputName(tags[1])] = Scalar(SharedPerRow(responses)[k])

(***************************************************************************)
(* C5.  Nested group: when a repeat-anchor is reached, the directives      *)
(* handed on for its matched children are those that follow it up to the   *)
(* next repeat-anchor, and they are evaluated for each child.  The code    *)
(* breaks it through the defect of C4: the call that would evaluate them   *)
(* raises NameError.                                                       *)
(***************************************************************************)
\* the directives after position j up to, not including, the next repeat-anchor
RECURSIVE UpToAnchor(_)
UpToAnchor(ts) ==
    IF ts = <<>> \/ IsAnchor(ts[1]) THEN <<>> ELSE <<ts[1]>> \o UpToAnchor(Tail(ts))

Group(j) == UpToAnchor(SubSeq(tags, j + 1, Len(tags)))

C5_NestedGroup ==
    (pc \in {"returned", "raised"} /\ ti <= Len(tags) /\ IsAnchor(tags[ti]) /\ elements # <<>>) =>
        /\ nested_tags = Group(ti)
        /\ pc = "returned"

(***************************************************************************)
(* C6.  OR-chain precedence: once an OR-chain directive has been           *)
(* processed for a record element, the value under its '|=' rename target  *)
(* is the type attribute of the single element matched by the first        *)
(* alternative, in declared order, that matches exactly one element; it    *)
(* stays so for the rest of the element's directives.                      *)
(***************************************************************************)
\* the alternatives of OR-chain t that match exactly one element of e
SingleMatches(e, t) ==
    LET alts == Alternatives(t)
    IN  {k \in 1..Len(alts) : Len(XPath(e, alts[k])) = 1}

FirstSingleMatch(e, t) ==
    LET single == SingleMatches(e, t)
    IN  CHOOSE k \in single : \A l \in single : k <= l

\* the single element matched by the winning alternative
Winner(e, t) == XPath(e, Alternatives(t)[FirstSingleMatch(e, t)])[1]

C6_OrChainPrecedence ==
    pc = "for_tag" =>
        \A j \in 1..(ti - 1) :
            (IsOrChain(tags[j]) /\ SingleMatches(Elem(responses[ei]), tags[j]) # {}) =>
                /\ RenameTarget(tags[j]) \in DOMAIN row_dict
                /\ row_dict[RenameTarget(tags[j])]
                       = Scalar(Get(Winner(Elem(responses[ei]), tags[j]), "type"))

\* the first alternative matches nothing, the second and the third one element
\* each with different type attributes, and a later directive has been processed
C6_Witness ==
    /\ pc = "for_tag"
    /\ ti = 3
    /\ IsOrChain(tags[1])
    /\ SingleMatches(Elem(responses[ei]), tags[1]) = {2, 3}
    /\ Get(XPath(Elem(responses[ei]), Alternatives(tags[1])[2])[1], "type")
           # Get(XPath(Elem(responses[ei]), Alternatives(tags[1])[3])[1], "type")
    /\ row_dict[RenameTarget(tags[1])] = Scalar("TB")

(***************************************************************************)
(* C7.  Frame of an OR-chain directive whose winning alternative matches   *)
(* one element.  As claimed: the only key the directive adds to the row    *)
(* is the '|=' rename target; the text of the match is written nowhere.    *)
(* The code also writes the text, under the directive's output name (the   *)
(* '^^' name, or the whole tag when there is none), as the docstring of    *)
(* to_pyarrow describes ("the column containing the element values").      *)
(***************************************************************************)
\* the step that processes an OR-chain directive with a winning alternative
OrChainWins ==
    /\ pc = "for_tag"
    /\ ti <= Len(tags)
    /\ IsOrChain(tags[ti])
    /\ SingleMatches(Elem(responses[ei]), tags[ti]) # {}
    /\ pc' = "for_tag"

C7_OnlyRenameTarget ==
    [][OrChainWins => (DOMAIN row_dict') \ (DOMAIN row_dict) \subseteq {RenameTarget(tags[ti])}]_vars

\* amended: the directive sets two keys, the rename target to the
\* discriminator and the output name to the text of the match, adds no row
\* and leaves every other key as it was
C7_TargetAndText ==
    [][OrChainWins =>
          /\ DOMAIN row_dict' = (DOMAIN row_dict) \cup {RenameTarget(tags[ti]), OutputName(tags[ti])}
          /\ row_dict'[RenameTarget(tags[ti])]
                 = Scalar(Get(Winner(Elem(responses[ei]), tags[ti]), "type"))
          /\ row_dict'[OutputName(tags[ti])] = Scalar(Winner(Elem(responses[ei]), tags[ti]).text)
          /\ \A c \in (DOMAIN row_dict) \ {RenameTarget(tags[ti]), OutputName(tags[ti])} :
                 row_dict'[c] = row_dict[c]
          /\ row_list' = row_list
          /\ added_to_list' = added_to_list]_vars

\* an OR-chain directive with a winning alternative has just been processed
\* after another directive had set a column
C7_Witness ==
    /\ pc = "for_tag"
    /\ ti = 3
    /\ IsOrChain(tags[2])
    /\ SingleMatches(Elem(responses[ei]), tags[2]) # {}
    /\ Cardinality(DOMAIN row_dict) = 3
    /\ OutputName(tags[2]) \in DOMAIN row_dict

(***************************************************************************)
(* C8.  Missing value: when the path of a plain directive matches no       *)
(* element of a record element, the row accumulated for that element       *)
(* holds the directive's output column with a null value.  The code        *)
(* breaks it: lines 374-399 do nothing for an empty match, so the column   *)
(* is absent from the row (the flatten-all and attribute branches do       *)
(* write None, lines 293 and 314).                                         *)
(***************************************************************************)
C8_MissingIsNull ==
    (pc = "for_tag" /\ ti > Len(tags)) =>
        \A j \in 1..Len(tags) :
            (IsPlain(tags[j]) /\ Matched(Elem(responses[ei]), tags[j]) = <<>>) =>
                /\ OutputName(tags[j]) \in DOMAIN row_dict
                /\ row_dict[OutputName(tags[j])] = Scalar(None)

(***************************************************************************)
(* C9.  Malformed directives: a malformed directive never aborts           *)
(* extraction; it alone is skipped.  The code breaks it: an OR-chain       *)
(* without '|=' raises IndexError on line 362, and a wildcard tag whose    *)
(* alternatives are all skipped leaves the empty expression, which         *)
(* element.xpath rejects on line 371.                                      *)
(***************************************************************************)
C9_MalformedSkipped ==
    (pc = "raised" /\ ti <= Len(tags)) => ~Malformed(tags[ti])

(***************************************************************************)
(* C10.  _shorten_column_name, for max_length >= 1: a key no longer than   *)
(* max_length is returned unchanged; otherwise the result is a suffix of   *)
(* the key, at most max_length long, and when the key has an underscore    *)
(* at or after index len(key) - max_length the result starts right after   *)
(* the first such underscore.                                              *)
(***************************************************************************)
IsSuffix(s, t) == Len(s) <= Len(t) /\ s = SubSeq(t, Len(t) - Len(s) + 1, Len(t))

\* the Python indices, at or after len(col) - max_length, of the underscores of col
LateUnderscores == {i \in (Len(col) - max_length)..(Len(col) - 1) : i >= 0 /\ col[i + 1] = "_"}

C10_Shorten ==
    pc = "shortened" =>
        /\ Len(col) <= max_length => new_col = col
        /\ Len(col) > max_length =>
               /\ Len(new_col) <= max_length
               /\ IsSuffix(new_col, col)
               /\ LateUnderscores # {} =>
                      \E i \in LateUnderscores :
                          /\ \A k \in LateUnderscores : i <= k
                          /\ new_col = SubSeq(col, i + 2, Len(col))

\* a key longer than max_length with two underscores in its last max_length
\* characters, cut after the first of them
C10_Witness ==
    /\ pc = "shortened"
    /\ Len(col) > max_length
    /\ Cardinality(LateUnderscores) >= 2
    /\ new_col # <<>>
    /\ Len(new_col) < max_length

(***************************************************************************)
(* The rename pass of to_pyarrow (lines 155-167), on the column names of   *)
(* a table.  A column name is a sequence of tokens; "=", "]", "'" and      *)
(* "/wd:" are one token each, so that re.search, replace and split on      *)
(* them are token operations.  No token holds a newline, which '.' of the  *)
(* pattern would not match.                                                *)
(***************************************************************************)
MaxName == 4        \* longest column name given to the rename pass

\* re.search(r"=(.*?)\]", col): the leftmost '=' that has a ']' after it, and
\* the shortest text up to a ']'; <<>> when there is no match, else <<group(1)>>
BracketLiteral(c) ==
    IF \E i, j \in 1..Len(c) : i < j /\ c[i] = "=" /\ c[j] = "]"
    THEN LET i == CHOOSE i \in 1..Len(c) :
                      /\ c[i] = "="
                      /\ \E j \in (i + 1)..Len(c) : c[j] = "]"
                      /\ \A k \in 1..(i - 1) :
                             ~(c[k] = "=" /\ \E j \in (k + 1)..Len(c) : c[j] = "]")
             j == CHOOSE j \in (i + 1)..Len(c) :
                      c[j] = "]" /\ \A k \in (i + 1)..(j - 1) : c[k] # "]"
         IN  <<SubSeq(c, i + 1, j - 1)>>
    ELSE <<>>

\* lines 157-165: col_rename.get(name, name)
NewColumn(c) ==
    LET match == BracketLiteral(c)
    IN  IF match # <<>> THEN Remove(match[1], "'")
        ELSE IF Contains(c, "/wd:")
        THEN LET parts == Split(c, "/wd:") IN parts[Len(parts)]
        ELSE c

RenameAlphabet == {"=", "]", "'", "/wd:", "a", "b"}

RenameNames == UNION {[1..n -> RenameAlphabet] : n \in 0..MaxName}

\* a table of one column, about to be renamed
InitRename ==
    /\ column_names \in {{c} : c \in RenameNames}
    /\ pc = "rename"
    /\ api_responses = <<>>
    /\ list_of_xml_tree = <<>>
    /\ IdleRequests
    /\ responses = <<>>
    /\ tags = <<>>
    /\ allow_collections = FALSE
    /\ row_list = <<>>
    /\ ei = 0
    /\ ti = 1
    /\ row_dict = EmptyDict
    /\ added_to_list = FALSE
    /\ elements = <<>>
    /\ nested_tags = <<>>
    /\ exc = "none"
    /\ col = <<>>
    /\ max_length = 1
    /\ new_col = <<>>

\* lines 155-167, run on a table and run again on the renamed table
RenameColumns ==
    /\ pc \in {"rename", "renamed"}
    /\ column_names' = {NewColumn(c) : c \in column_names}
    /\ pc' = IF pc = "rename" THEN "renamed" ELSE "renamed_twice"
    /\ UNCHANGED <<api_responses, list_of_xml_tree>>
    /\ UNCHANGED <<pullVars, shortenVars, requestVars>>

NextRename == RenameColumns

SpecRename == InitRename /\ [][NextRename]_vars

(***************************************************************************)
(* C11.  Idempotence of the rename pass: applying the rename rule of       *)
(* to_pyarrow to an already renamed column name returns that name          *)
(* unchanged.  The code breaks it: the bracket literal taken by the        *)
(* pattern may hold a '/wd:', which the second pass then cuts at (the      *)
(* elif of line 161), so "=/wd:b]" becomes "/wd:b" and then "b".           *)
(***************************************************************************)
C11_RenameIdempotent ==
    pc = "renamed" => \A c \in column_names : NewColumn(c) = c

(***************************************************************************)
(* to_pyarrow as a state machine (lines 137-167).  A document of           *)
(* api_responses is what etree.fromstring(xml).findall('.//wd:' +          *)
(* start_tag) makes of it: the record elements found, or a syntax error.   *)
(* pc = "to_pyarrow": at line 138; "parsed": line 144 done; then the       *)
(* positions of _pull_data, called on line 150; "table": line 167.         *)
(***************************************************************************)
Document(ok, recs) == [ok |-> ok, recs |-> recs]

Documents ==
    { Document(TRUE, <<>>), Document(TRUE, <<1>>), Document(TRUE, <<2, 0>>),
      Document(FALSE, <<>>) }

ApiResponses == UNION {[1..n -> Documents] : n \in 0..MaxRecords}

\* the tags as the caller writes them
UserTagVocabulary ==
    { <<"p", ">>", "x">>,
      <<"d", "||", "a", "|=", "L">>,
      <<"@@", "T">>,
      <<"~", "q">>,
      <<"*", "r">> }

UserTagLists ==
    {q \in UNION {[1..k -> UserTagVocabulary] : k \in 0..MaxTags} :
        \A i, j \in 1..Len(q) : q[i] = q[j] => i = j}

\* line 138: len(responses) < 1
EmptyResponsesNever(r) == Len(r) < 0

EmptyResponses(r) == Len(r) < 1

\* line 144: the lists of list_of_xml_tree, one after the other
RECURSIVE Flatten(_)
Flatten(lists) == IF lists = <<>> THEN <<>> ELSE lists[1] \o Flatten(Tail(lists))

\* lines 147-148: './wd:' + tag.replace('>>', '/wd:'), then '||' made '||./wd:'
PrepareTag(t) ==
    ReplaceSub(<<".", "/wd:">> \o ReplaceSub(t, <<">>">>, <<"/wd:">>),
               <<"||">>, <<"||", ".", "/wd:">>)

InitToPyarrow ==
    /\ api_responses \in ApiResponses
    /\ tags \in UserTagLists
    /\ allow_collections \in BOOLEAN
    /\ list_of_xml_tree = <<>>
    /\ column_names = {}
    /\ pc = "to_pyarrow"
    /\ responses = <<>>
    /\ row_list = <<>>
    /\ ei = 0
    /\ ti = 1
    /\ row_dict = EmptyDict
    /\ added_to_list = FALSE
    /\ elements = <<>>
    /\ nested_tags = <<>>
    /\ exc = "none"
    /\ col = <<>>
    /\ max_length = 1
    /\ new_col = <<>>
    /\ IdleRequests

\* lines 137-139
CheckResponses ==
    /\ pc = "to_pyarrow"
    /\ IF EmptyResponses(api_responses)
       THEN pc' = "raised" /\ exc' = "ValueError"
       ELSE pc' = "check_done" /\ exc' = exc
    /\ UNCHANGED <<responses, tags, allow_collections, row_list, ei, ti, row_dict,
                   added_to_list, elements, nested_tags>>
    /\ UNCHANGED <<tableVars, shortenVars, requestVars>>

\* lines 141-144: etree.fromstring raises on a document that is not XML
ParseResponses ==
    /\ pc = "check_done"
    /\ IF \E i \in 1..Len(api_responses) : ~api_responses[i].ok
       THEN pc' = "raised" /\ exc' = "XMLSyntaxError" /\ UNCHANGED list_of_xml_tree
       ELSE /\ pc' = "parsed"
            /\ exc' = exc
            /\ list_of_xml_tree' = [i \in 1..Len(api_responses) |-> api_responses[i].recs]
    /\ UNCHANGED <<responses, tags, allow_collections, row_list, ei, ti, row_dict,
                   added_to_list, elements, nested_tags>>
    /\ UNCHANGED <<api_responses, column_names>>
    /\ UNCHANGED <<shortenVars, requestVars>>

\* lines 146-150 and 241: the tags are prepared and _pull_data is entered
CallPullData ==
    /\ pc = "parsed"
    /\ tags' = [i \in 1..Len(tags) |-> PrepareTag(tags[i])]
    /\ responses' = Flatten(list_of_xml_tree)
    /\ row_list' = <<>>
    /\ pc' = "for_element"
    /\ UNCHANGED <<allow_collections, ei, ti, row_dict, added_to_list, elements,
                   nested_tags, exc>>
    /\ UNCHANGED <<tableVars, shortenVars, requestVars>>

\* lines 153-167: the table of the rows (pyarrow takes the columns from the
\* first row) with its columns renamed
BuildTable ==
    /\ pc = "returned"
    /\ column_names' = IF row_list = <<>> THEN {}
                       ELSE {NewColumn(c) : c \in DOMAIN row_list[1]}
    /\ pc' = "table"
    /\ UNCHANGED <<api_responses, list_of_xml_tree>>
    /\ UNCHANGED <<pullVars, shortenVars, requestVars>>

NextToPyarrow ==
    \/ CheckResponses
    \/ ParseResponses
    \/ CallPullData
    \/ Next
    \/ BuildTable

SpecToPyarrow == InitToPyarrow /\ [][NextToPyarrow]_vars

(***************************************************************************)
(* C12.  to_pyarrow called with an empty responses collection raises       *)
(* ValueError and does nothing else: no document is parsed, _pull_data is  *)
(* not entered, no directive is evaluated and no table is built.           *)
(***************************************************************************)
C12_EmptyResponsesRejected ==
    (api_responses = <<>> /\ pc # "to_pyarrow") =>
        /\ pc = "raised"
        /\ exc = "ValueError"
        /\ list_of_xml_tree = <<>>
        /\ responses = <<>>
        /\ ei = 0
        /\ ti = 1
        /\ row_list = <<>>
        /\ row_dict = EmptyDict
        /\ column_names = {}
        /\ \A i \in 1..Len(tags) : tags[i] \in UserTagVocabulary

\* the call with no document and three directives has raised
C12_Witness ==
    /\ api_responses = <<>>
    /\ Len(tags) = MaxTags
    /\ pc = "raised"
    /\ exc = "ValueError"

(***************************************************************************)
(* C13.  Frame of a fan-out.  When a plain directive matches M > 1         *)
(* elements of a record element and collections are disallowed, M rows     *)
(* are appended, each the accumulated row with the fanned column set to    *)
(* one match; the accumulated row itself is left as it was and the later   *)
(* directives go on from it.  Rows once appended are never changed, so     *)
(* the fanned rows hold no column of a later directive, and at the end of  *)
(* the element's directives the accumulated row is not appended.           *)
(***************************************************************************)
\* the plain directive at ti fans out for the current record element
PlainFanOut ==
    /\ pc = "for_tag"
    /\ ti <= Len(tags)
    /\ ~allow_collections
    /\ IsPlain(tags[ti])
    /\ Len(Matched(Elem(responses[ei]), tags[ti])) > 1

\* a plain directive has fanned out earlier for the current record element
FannedEarlier ==
    /\ pc = "for_tag"
    /\ ~allow_collections
    /\ \E j \in 1..(ti - 1) :
           IsPlain(tags[j]) /\ Len(Matched(Elem(responses[ei]), tags[j])) > 1

C13_FannedRowsFrozen ==
    [][/\ Len(row_list') >= Len(row_list)
       /\ SubSeq(row_list', 1, Len(row_list)) = row_list
       /\ PlainFanOut =>
              LET m == Matched(Elem(responses[ei]), tags[ti])
              IN  /\ Len(row_list') = Len(row_list) + Len(m)
                  /\ \A i \in 1..Len(m) :
                         row_list'[Len(row_list) + i]
                             = Update(row_dict, Entry(OutputName(tags[ti]), Scalar(m[i].text)))
                  /\ row_dict' = row_dict
       /\ (FannedEarlier /\ ti > Len(tags)) => row_list' = row_list]_vars

\* a fan-out in the middle of three directives: the last directive has set
\* its column in the accumulated row, the fanned rows do not hold it, and
\* the accumulated row was not appended
C13_Witness ==
    /\ pc = "returned"
    /\ ~allow_collections
    /\ Len(responses) = 1
    /\ Len(tags) = 3
    /\ IsPlain(tags[2])
    /\ Len(Matched(Elem(responses[1]), tags[2])) = MaxMatch
    /\ Len(row_list) = MaxMatch
    /\ OutputName(tags[1]) \in DOMAIN row_dict
    /\ OutputName(tags[3]) \in DOMAIN row_dict
    /\ \A i \in 1..Len(row_list) :
           /\ OutputName(tags[1]) \in DOMAIN row_list[i]
           /\ OutputName(tags[3]) \notin DOMAIN row_list[i]

(***************************************************************************)
(* _pull_data on directive lists built for the recursion: two              *)
(* repeat-anchors and one directive of each other kind, in any order and   *)
(* with repetitions.  The interpreter is a sequential program that keeps   *)
(* running: each of its steps is taken when it can be.  For the            *)
(* flatten-all step the fairness condition is written out, with the        *)
(* guard of the step as its enabling condition.                            *)
(***************************************************************************)
TerminationVocabulary ==
    { <<".", "/wd:", "*", "r">>,
      <<".", "/wd:", "*", "p">>,
      <<".", "/wd:", "a">>,
      <<".", "/wd:", "~", "q">>,
      <<".", "/wd:", "@@", "T">> }

TerminationTagLists == UNION {[1..k -> TerminationVocabulary] : k \in 0..MaxTags}

InitTermination ==
    /\ responses \in ResponseLists
    /\ tags \in TerminationTagLists
    /\ allow_collections \in BOOLEAN
    /\ row_list = <<>>
    /\ ei = 0
    /\ ti = 1
    /\ row_dict = EmptyDict
    /\ added_to_list = FALSE
    /\ elements = <<>>
    /\ nested_tags = <<>>
    /\ pc = "for_element"
    /\ exc = "none"
    /\ col = <<>>
    /\ max_length = 1
    /\ new_col = <<>>
    /\ IdleTable
    /\ IdleRequests

\* the guard of FlattenAllTag
FlattenAllEnabled ==
    /\ pc = "for_tag"
    /\ ti <= Len(tags)
    /\ ~Contains(tags[ti], "*")
    /\ Contains(tags[ti], "~")

Fairness ==
    /\ WF_vars(NextElement)
    /\ WF_vars(RepeatAnchorTag)
    /\ WF_vars(AttributeTag)
    /\ WF_vars(LookupTag)
    /\ WF_vars(EndOfTags)
    /\ WF_vars(ReturnRows)
    /\ ([]<>~FlattenAllEnabled \/ []<><<FlattenAllTag>>_vars)

SpecTermination == InitTermination /\ [][Next]_vars /\ Fairness

(***************************************************************************)
(* C14.  Termination: every run of _pull_data reaches its return or an     *)
(* exception.  The directive list computed for the recursive call of a     *)
(* repeat-anchor is strictly shorter than the caller's list and holds      *)
(* fewer repeat-anchors, which bounds the depth of the recursion by the    *)
(* number of repeat-anchors of the original list.  (In the code as         *)
(* written the call itself raises NameError, line 256, so the depth        *)
(* reached is zero.)                                                       *)
(***************************************************************************)
AnchorCount(ts) == Cardinality({j \in 1..Len(ts) : IsAnchor(ts[j])})

C14_Terminates ==
    /\ <>(pc \in {"returned", "raised"})
    /\ [][RepeatAnchorTag =>
              /\ Len(nested_tags') < Len(tags)
              /\ AnchorCount(nested_tags') < AnchorCount(tags)]_vars

\* a repeat-anchor with matched children was reached at the head of a list
\* of MaxTags directives; the list computed for the call holds the
\* directives after it, another repeat-anchor among them
C14_Witness ==
    /\ pc = "raised"
    /\ exc = "NameError"
    /\ Len(tags) = MaxTags
    /\ ti = 1
    /\ elements # <<>>
    /\ Len(nested_tags) = MaxTags - 1
    /\ AnchorCount(nested_tags) = 1

(***************************************************************************)
(* _generate_requests of wws_api/request_data.py (lines 69-111) and the    *)
(* tasks it creates.  A payload is a sequence of tokens, the placeholders  *)
(* '{{ page }}' and '{ page }' one token each.  pc = "first_request": at   *)
(* line 89; "pages_known": line 98 done; "create_tasks": line 104;         *)
(* "gather": awaiting line 110; "returned": line 111; "raised": an         *)
(* exception left the coroutine.  Between lines 104 and 110 the coroutine  *)
(* does not await, so no task runs before all are created; while it        *)
(* awaits gather, the event loop completes the tasks in any order.         *)
(***************************************************************************)
MaxPages == 4       \* largest page count below the limit of line 100

PageLimit == 8000

\* str(number)
PageStr == <<"1", "2", "3", "4", "5", "6", "7", "8", "9">>

Str(n) == PageStr[n]

XmlTemplates ==
    { <<"<Request>", "{{ page }}">>,
      <<"<Request>", "{ page }">>,
      <<"<Request>">> }

\* lines 82-83 and 106-107: both placeholders replaced by the page number
Payload(template, number) ==
    ReplaceSub(ReplaceSub(template, <<"{{ page }}">>, <<Str(number)>>),
               <<"{ page }">>, <<Str(number)>>)

\* what _hit_wws returns for a payload: the body of the server's response
Response(payload) == <<"response to">> \o payload

\* the Total_Pages the first response reports: kind "missing" when it holds
\* no such element, "text" when its text is not a number
TotalPages ==
    {[kind |-> "missing", n |-> 0], [kind |-> "text", n |-> 0]}
        \cup {[kind |-> "int", n |-> k] : k \in 0..MaxPages}
        \cup {[kind |-> "int", n |-> PageLimit + 1]}

Task(payload) == [payload |-> payload, state |-> "pending", result |-> <<>>]

\* line 110: the results in completion order instead of task order
GatherInCompletionOrder(ts, order) == [k \in 1..Len(order) |-> ts[order[k]].result]

\* line 110: asyncio.gather gives the results in the order of the awaitables
Gather(ts, order) == [i \in 1..Len(ts) |-> ts[i].result]

InitRequests ==
    /\ xml_template \in XmlTemplates
    /\ pages = 0
    /\ tasks = <<>>
    /\ finished = <<>>
    /\ web_calls = <<>>
    /\ pc = "first_request"
    /\ exc = "none"
    /\ IdleTable
    /\ responses = <<>>
    /\ tags = <<>>
    /\ allow_collections = FALSE
    /\ row_list = <<>>
    /\ ei = 0
    /\ ti = 1
    /\ row_dict = EmptyDict
    /\ added_to_list = FALSE
    /\ elements = <<>>
    /\ nested_tags = <<>>
    /\ col = <<>>
    /\ max_length = 1
    /\ new_col = <<>>

requestFrame ==
    <<responses, tags, allow_collections, row_list, ei, ti, row_dict, added_to_list,
      elements, nested_tags, shortenVars, tableVars>>

\* lines 82-98: the request for page 1 and the page count of its response
FirstRequest ==
    /\ pc = "first_request"
    /\ \/ /\ pc' = "raised"
          /\ exc' = "ClientError"
          /\ UNCHANGED pages
       \/ \E total \in TotalPages :
              IF total.kind = "int"
              THEN pages' = total.n /\ pc' = "pages_known" /\ exc' = exc
              ELSE pc' = "raised" /\ exc' = "ValueError" /\ UNCHANGED pages
    /\ UNCHANGED <<xml_template, tasks, finished, web_calls>>
    /\ UNCHANGED requestFrame

\* lines 100-102
CheckPages ==
    /\ pc = "pages_known"
    /\ IF pages > PageLimit
       THEN pc' = "raised" /\ exc' = "ValueError"
       ELSE pc' = "create_tasks" /\ exc' = exc
    /\ UNCHANGED <<xml_template, pages, tasks, finished, web_calls>>
    /\ UNCHANGED requestFrame

\* lines 104-108 and the await of line 110
CreateTasks ==
    /\ pc = "create_tasks"
    /\ tasks' = [number \in 1..pages |-> Task(Payload(xml_template, number))]
    /\ pc' = "gather"
    /\ UNCHANGED <<xml_template, pages, finished, web_calls, exc>>
    /\ UNCHANGED requestFrame

\* lines 114-124: the response to the request of a task arrives
TaskCompletes(i) ==
    /\ pc = "gather"
    /\ tasks[i].state = "pending"
    /\ tasks' = [tasks EXCEPT ![i].state = "done", ![i].result = Response(tasks[i].payload)]
    /\ finished' = Append(finished, i)
    /\ UNCHANGED <<xml_template, pages, web_calls, pc, exc>>
    /\ UNCHANGED requestFrame

\* lines 114-124 and 110: the request of a task fails, and gather passes
\* the exception on
TaskFails(i) ==
    /\ pc = "gather"
    /\ tasks[i].state = "pending"
    /\ tasks' = [tasks EXCEPT ![i].state = "failed"]
    /\ pc' = "raised"
    /\ exc' = "ClientError"
    /\ UNCHANGED <<xml_template, pages, finished, web_calls>>
    /\ UNCHANGED requestFrame

\* lines 110-111: every task is done
ReturnWebCalls ==
    /\ pc = "gather"
    /\ \A i \in 1..Len(tasks) : tasks[i].state = "done"
    /\ web_calls' = Gather(tasks, finished)
    /\ pc' = "returned"
    /\ UNCHANGED <<xml_template, pages, tasks, finished, exc>>
    /\ UNCHANGED requestFrame

NextRequests ==
    \/ FirstRequest
    \/ CheckPages
    \/ CreateTasks
    \/ \E i \in 1..Len(tasks) : TaskCompletes(i)
    \/ \E i \in 1..Len(tasks) : TaskFails(i)
    \/ ReturnWebCalls

SpecRequests == InitRequests /\ [][NextRequests]_vars

(***************************************************************************)
(* C15.  Once the first response has reported P pages (P within the        *)
(* limit), _generate_requests has created exactly one task per page 1..P,  *)
(* task i carrying the payload of page i; it returns only when all P       *)
(* tasks are done; and the list it returns has P entries, entry i the      *)
(* response to the request of page i, in whatever order the tasks          *)
(* completed.                                                              *)
(***************************************************************************)
C15_OneRequestPerPage ==
    /\ pc \in {"gather", "returned"} =>
           /\ Len(tasks) = pages
           /\ \A i \in 1..pages : tasks[i].payload = Payload(xml_template, i)
    /\ pc = "returned" =>
           /\ pages <= PageLimit
           /\ \A i \in 1..pages : tasks[i].state = "done"
           /\ Len(finished) = pages
           /\ \A i \in 1..pages : \E k \in 1..pages : finished[k] = i
           /\ Len(web_calls) = pages
           /\ \A i \in 1..pages : web_calls[i] = Response(Payload(xml_template, i))

\* MaxPages pages of a template with a placeholder, the last page's request
\* completing first and the first page's request last
C15_Witness ==
    /\ pc = "returned"
    /\ pages = MaxPages
    /\ Contains(xml_template, "{{ page }}")
    /\ finished[1] = MaxPages
    /\ finished[MaxPages] = 1
    /\ web_calls[1] # web_calls[MaxPages]

====
